---- MODULE Spec2Model ----
(***************************************************************************)
(* Model of pkg/gadgettracermanager/containerutils/containerutils.go:      *)
(* container-id -> pid resolution over the three runtimes, the cgroup and  *)
(* mount-point helpers, the cgo cgroup-id lookup and the tolerant parser   *)
(* of the OCI state, and of the Container Registry that the hooks drive.   *)
(* Strings are sequences of chunks (short literal pieces of text), so that *)
(* prefix tests, trimming, line splitting and number parsing are computed, *)
(* not assumed.                                                            *)
(***************************************************************************)
EXTENDS Integers, Sequences, FiniteSets, TLC

VARIABLES
  pc,          \* position of the caller of PidFromContainerId
  containerID, \* argument of the running / last PidFromContainerId call
  io,          \* external effects of that call: processes run, dials, RPCs
  ret,         \* what the call returned: [pid, err]
  stateBuf,    \* the hook payload handed to ParseOCIState
  parsed,      \* what ParseOCIState returned, "none" before the call
  cgroupFile,  \* /proc/<pid>/cgroup of the process: [readable, data]
  cgPaths,     \* what GetCgroupPaths returned: [v1, v2, err]
  rawPath,     \* argument of CgroupPathV2AddMountpoint
  statUnified, \* what os.Stat answers for the path under /sys/fs/cgroup/unified
  statDefault, \* what os.Stat answers for the path under /sys/fs/cgroup
  qualified,   \* what CgroupPathV2AddMountpoint returned: [path, err]
  heapHandles, \* cgid_file_handle buffers malloc'ed and not freed
  heapCStrings,\* C strings made by C.CString and not freed
  cgidCalls,   \* calls of GetCgroupID so far
  cgidArg,     \* argument of the last GetCgroupID call
  cgidRet,     \* what it returned: [id, err]
  table,       \* the registry's entries: [id, pid, cgroupID, mountNsID]
  byPid,       \* lookup index: pairs <<pid, container id>>
  byCgroupID,  \* lookup index: pairs <<cgroup id, container id>>
  byMountNsID, \* lookup index: pairs <<mount namespace id, container id>>
  lastHook     \* the last hook call: [op, changed]

pidVars == <<pc, containerID, io, ret>>
parseVars == <<stateBuf, parsed>>
cgroupVars == <<cgroupFile, cgPaths>>
mountVars == <<rawPath, statUnified, statDefault, qualified>>
cgidVars == <<heapHandles, heapCStrings, cgidCalls, cgidArg, cgidRet>>
registryVars == <<table, byPid, byCgroupID, byMountNsID, lastHook>>
otherThanPid == <<parseVars, cgroupVars, mountVars, cgidVars, registryVars>>

(***************************************************************************)
(* Bounds                                                                  *)
(***************************************************************************)
MaxIdLen == 2      \* chunks in a container id
MaxPid == 2        \* largest pid a runtime reports
MaxInspect == 2    \* elements of the array printed by docker inspect
MaxPidStrLen == 2  \* characters of Info["pid"]
MaxMembers == 2    \* members of the well-formed head of a hook payload
MaxTail == 4       \* tokens following the head of a hook payload
MaxLines == 3      \* lines of /proc/<pid>/cgroup
MaxPathLen == 1    \* name chunks of a cgroup path after its leading /
MaxRawLen == 3     \* chunks of a path handed to CgroupPathV2AddMountpoint
MaxCalls == 4      \* calls of GetCgroupID
MaxCgid == 2       \* largest cgroup id the kernel hands out
MaxNsId == 1       \* largest mount namespace inode

RECURSIVE SeqsUpTo(_, _)
SeqsUpTo(S, n) ==
  IF n = 0 THEN {<<>>}
  ELSE LET shorter == SeqsUpTo(S, n - 1)
       IN  shorter \cup {Append(s, x) : s \in {t \in shorter : Len(t) = n - 1}, x \in S}

(***************************************************************************)
(* strings.HasPrefix / strings.TrimPrefix / strings.TrimSuffix             *)
(***************************************************************************)
HasPrefix(s, p) == Len(s) >= Len(p) /\ SubSeq(s, 1, Len(p)) = p

TrimPrefix(s, p) == IF HasPrefix(s, p) THEN SubSeq(s, Len(p) + 1, Len(s)) ELSE s

HasSuffix(s, p) == Len(s) >= Len(p) /\ SubSeq(s, Len(s) - Len(p) + 1, Len(s)) = p

TrimSuffix(s, p) == IF HasSuffix(s, p) THEN SubSeq(s, 1, Len(s) - Len(p)) ELSE s

(***************************************************************************)
(* PidFromContainerId                                                      *)
(***************************************************************************)
IdChunks == {"docker://", "cri-o://", "containerd://", "ftp://", "docker", "abc"}

ContainerIDs == SeqsUpTo(IdChunks, MaxIdLen)

PidValues == (-1) .. MaxPid

NoIO == [exec |-> 0, dial |-> 0, rpc |-> 0]

Ret(p, e) == [pid |-> p, err |-> e]

\* What `docker inspect` can answer: the command fails, prints something that
\* is not a JSON array of objects, or prints an array whose elements carry
\* State.Pid (0 when the field is absent, and for a container that is not
\* running).
DockerPids == 0 .. MaxPid

DockerReplies ==
  {[kind |-> k, items |-> <<>>] : k \in {"execfail", "badjson"}}
    \cup {[kind |-> "array", items |-> s] : s \in SeqsUpTo(DockerPids, MaxInspect)}

\* The docker branch, lines 153-170.
PidFromDocker(reply) ==
  IF reply.kind = "execfail" THEN Ret(-1, "exec")
  ELSE IF reply.kind = "badjson" THEN Ret(-1, "json")
  ELSE IF Len(reply.items) # 1 THEN Ret(-1, "invalid output")
  ELSE Ret(reply.items[1], "nil")

\* strconv.Atoi on a string of characters: an optional sign, then at least
\* one decimal digit and nothing else.
Digits == {"0", "1", "2"}

DigitVal(c) == CASE c = "0" -> 0 [] c = "1" -> 1 [] c = "2" -> 2

RECURSIVE Decimal(_)
Decimal(s) ==
  IF Len(s) = 0 THEN 0
  ELSE 10 * Decimal(SubSeq(s, 1, Len(s) - 1)) + DigitVal(s[Len(s)])

Atoi(s) ==
  LET signed == Len(s) > 0 /\ s[1] \in {"-", "+"}
      body   == IF signed THEN Tail(s) ELSE s
  IN  IF Len(body) = 0 \/ \E i \in 1 .. Len(body) : body[i] \notin Digits
        THEN [ok |-> FALSE, val |-> 0]
        ELSE [ok |-> TRUE,
              val |-> IF signed /\ s[1] = "-" THEN 0 - Decimal(body) ELSE Decimal(body)]

PidChars == {"-", "0", "1", "x"}

PidStrings == SeqsUpTo(PidChars, MaxPidStrLen)

\* Replies of the cri-o ContainerStatus RPC: Info with or without "pid".
CrioReplies ==
  {[hasPid |-> FALSE, pidStr |-> <<>>]} \cup {[hasPid |-> TRUE, pidStr |-> s] : s \in PidStrings}

\* The cri-o branch after getContainerStatus succeeded, lines 177-187.
PidFromCrio(reply) ==
  IF ~reply.hasPid THEN Ret(-1, "no pid")
  ELSE LET n == Atoi(reply.pidStr)
       IN  IF ~n.ok THEN Ret(-1, "atoi") ELSE Ret(n.val, "nil")

\* Replies of the containerd ContainerStatus RPC: Info with or without "info";
\* the blob is not JSON for struct{Pid int}, or decodes to a Pid (0 when the
\* object carries no Pid field).
ContainerdReplies ==
  {[hasInfo |-> h, json |-> FALSE, Pid |-> 0] : h \in BOOLEAN}
    \cup {[hasInfo |-> TRUE, json |-> TRUE, Pid |-> p] : p \in PidValues}

\* The containerd branch after getContainerStatus succeeded, lines 194-207.
PidFromContainerd(reply) ==
  IF ~reply.hasInfo THEN Ret(-1, "no info")
  ELSE IF ~reply.json THEN Ret(-1, "json")
  ELSE IF reply.Pid = 0 THEN Ret(-1, "invalid pid")
  ELSE Ret(reply.Pid, "nil")

\* Faulty variant: strings.Contains in place of strings.HasPrefix.
IsDockerAnywhere(id) == \E i \in 1 .. Len(id) : id[i] = "docker://"

IsDocker(id) == HasPrefix(id, <<"docker://">>)
IsCrio(id) == ~IsDocker(id) /\ HasPrefix(id, <<"cri-o://">>)
IsContainerd(id) == ~IsDocker(id) /\ ~IsCrio(id) /\ HasPrefix(id, <<"containerd://">>)
IsCRI(id) == IsCrio(id) \/ IsContainerd(id)

\* A call of PidFromContainerId up to its first blocking point.  The docker
\* branch runs the CLI and returns; the cri-o and containerd branches call
\* getContainerStatus, which dials (grpc.Dial does not block) and issues the
\* ContainerStatus RPC with context.Background(); any other id returns at
\* line 209 having touched nothing.
PidFromContainerId(id) ==
  /\ pc \in {"idle", "done"}
  /\ containerID' = id
  /\ UNCHANGED otherThanPid
  /\ IF IsDocker(id)
       THEN \E reply \in DockerReplies :
              /\ ret' = PidFromDocker(reply)
              /\ io' = [NoIO EXCEPT !.exec = 1]
              /\ pc' = "done"
     ELSE IF IsCRI(id)
       THEN /\ ret' = Ret(0, "pending")
            /\ io' = [NoIO EXCEPT !.dial = 1, !.rpc = 1]
            /\ pc' = "dialing"
     ELSE /\ ret' = Ret(-1, "unknown container runtime")
          /\ io' = NoIO
          /\ pc' = "done"

\* The dialer of getConnection: net.DialTimeout("unix", path, 2*time.Second)
\* returns a connection, or an error no later than two seconds after it was
\* called; on an error the fail-fast RPC returns it.
DialerReturns ==
  /\ pc = "dialing"
  /\ \/ /\ pc' = "rpc"
        /\ ret' = ret
     \/ /\ pc' = "done"
        /\ ret' = Ret(-1, "unavailable")
  /\ UNCHANGED <<containerID, io, otherThanPid>>

\* The runtime answers the ContainerStatus RPC (a reply or an error status).
\* The RPC context is context.Background(): it carries no deadline, so
\* nothing but the runtime's answer ends the wait.
ContainerStatusReturns ==
  /\ pc = "rpc"
  /\ pc' = "done"
  /\ \/ ret' = Ret(-1, "status")
     \/ /\ IsCrio(containerID)
        /\ \E reply \in CrioReplies : ret' = PidFromCrio(reply)
     \/ /\ IsContainerd(containerID)
        /\ \E reply \in ContainerdReplies : ret' = PidFromContainerd(reply)
  /\ UNCHANGED <<containerID, io, otherThanPid>>

(***************************************************************************)
(* ParseOCIState.  A payload is a sequence of JSON tokens; AnnKey is the   *)
(* text "annotations": and Comma the text , so the pattern's literal       *)
(* ,"annotations": is a Comma followed at once by an AnnKey.               *)
(***************************************************************************)
LBrace == "{"
RBrace == "}"
Comma == ","
AnnKey == "annotations:"
EmptyObj == "{}"
Junk == "junk"

IdToks == {"id:a", "id:b"}
PidToks == {"pid:1", "pid:2"}

TokId(t) == CASE t = "id:a" -> "a" [] t = "id:b" -> "b"
TokPid(t) == CASE t = "pid:1" -> 1 [] t = "pid:2" -> 2

NoState == [ok |-> FALSE, id |-> "", pid |-> 0]

\* The members of an object after its opening brace, up to and including the
\* closing brace, which must be the last token.  acc is the ocispec.State
\* decoded so far; a repeated key overwrites, an annotations member must
\* carry an object.
RECURSIVE DecodeMembers(_, _)
DecodeMembers(s, acc) ==
  IF Len(s) = 0 THEN NoState
  ELSE LET width == IF s[1] = AnnKey THEN 2 ELSE 1
           isMember == \/ s[1] \in IdToks \cup PidToks
                       \/ s[1] = AnnKey /\ Len(s) >= 2 /\ s[2] = EmptyObj
           now == IF s[1] \in IdToks THEN [acc EXCEPT !.id = TokId(s[1])]
                  ELSE IF s[1] \in PidToks THEN [acc EXCEPT !.pid = TokPid(s[1])]
                  ELSE acc
           rest == SubSeq(s, width + 1, Len(s))
       IN  IF ~isMember \/ Len(rest) = 0 THEN NoState
           ELSE IF rest = <<RBrace>> THEN now
           ELSE IF rest[1] = Comma THEN DecodeMembers(Tail(rest), now)
           ELSE NoState

\* json.Unmarshal(buf, &ocispec.State{}): the whole buffer must be one JSON
\* object; absent fields keep their zero values.
Unmarshal(buf) ==
  LET zero == [ok |-> TRUE, id |-> "", pid |-> 0]
  IN  IF Len(buf) < 2 \/ buf[1] # LBrace THEN NoState
      ELSE IF buf = <<LBrace, RBrace>> THEN zero
      ELSE DecodeMembers(Tail(buf), zero)

\* Places where ,"annotations": starts.
MarkerAt(buf) == {i \in 1 .. Len(buf) - 1 : buf[i] = Comma /\ buf[i + 1] = AnnKey}

Max(S) == CHOOSE x \in S : \A y \in S : y <= x
Min(S) == CHOOSE x \in S : \A y \in S : x <= y

\* Faulty variant: a non-greedy group, which stops at the first ,"annotations":.
FindStringSubmatchFirst(buf) ==
  IF MarkerAt(buf) = {} THEN <<>>
  ELSE <<buf, SubSeq(buf, 1, Min(MarkerAt(buf)) - 1)>>

\* regexp (?ms)^(.*),"annotations":.*$ : the match starts at the beginning
\* of the buffer and the greedy group runs to the last ,"annotations": of
\* it.  <<>> when nothing matches, else <<whole match, group 1>>.
FindStringSubmatch(buf) ==
  IF MarkerAt(buf) = {} THEN <<>>
  ELSE <<buf, SubSeq(buf, 1, Max(MarkerAt(buf)) - 1)>>

Parsed(i, p, e, m, d) == [id |-> i, pid |-> p, err |-> e, matches |-> m, decodes |-> d]

\* Faulty variant: no return at line 247, so the zero state is returned
\* without an error when nothing matches.
ParseOCIStateKeepsGoing(buf) ==
  LET first == Unmarshal(buf)
  IN  IF first.ok THEN Parsed(first.id, first.pid, "nil", 0, 1)
      ELSE LET m == FindStringSubmatch(buf)
           IN  IF Len(m) # 2 THEN Parsed("", 0, "nil", 1, 1)
               ELSE LET second == Unmarshal(m[2] \o <<RBrace>>)
                    IN  IF ~second.ok THEN Parsed("", 0, "cannot parse OCI state", 1, 2)
                        ELSE Parsed(second.id, second.pid, "nil", 1, 2)

\* ParseOCIState; matches counts the runs of the pattern and decodes the
\* calls of json.Unmarshal.
ParseOCIState(buf) ==
  LET first == Unmarshal(buf)
  IN  IF first.ok THEN Parsed(first.id, first.pid, "nil", 0, 1)
      ELSE LET m == FindStringSubmatch(buf)
           IN  IF Len(m) # 2 THEN Parsed("", 0, "cannot parse OCI state: matches", 1, 1)
               ELSE LET second == Unmarshal(m[2] \o <<RBrace>>)
                    IN  IF ~second.ok THEN Parsed("", 0, "cannot parse OCI state", 1, 2)
                        ELSE Parsed(second.id, second.pid, "nil", 1, 2)

\* Hook payloads: an opening brace and up to MaxMembers members, then up to
\* MaxTail further tokens (closing the object, or not).
Members == {<<t>> : t \in {"id:a", "pid:1"}} \cup {<<AnnKey, EmptyObj>>}

RECURSIVE Heads(_)
Heads(n) ==
  IF n = 0 THEN {<<LBrace>>}
  ELSE Heads(n - 1) \cup
       {IF Len(h) = 1 THEN h \o m ELSE h \o <<Comma>> \o m : h \in Heads(n - 1), m \in Members}

TailToks == {RBrace, Comma, AnnKey, Junk, "id:b"}

Payloads == {h \o t : h \in Heads(MaxMembers), t \in SeqsUpTo(TailToks, MaxTail)}

NotParsed == Parsed("", 0, "none", 0, 0)

ParseCall ==
  /\ parsed = NotParsed
  /\ parsed' = ParseOCIState(stateBuf)
  /\ UNCHANGED <<pidVars, stateBuf, cgroupVars, mountVars, cgidVars, registryVars>>

(***************************************************************************)
(* GetCgroupPaths.  The file is a sequence of chunks: a hierarchy prefix,  *)
(* the chunks of the path, and NL for the newline that ends a line.        *)
(***************************************************************************)
NL == "\n"
V1Prefix == "1:name=systemd:"
V2Prefix == "0::"
HierPrefixes == {V2Prefix, V1Prefix, "2:cpu:"}

\* The paths the kernel prints: the root, or / followed by names.
CgroupPaths ==
  {<<"/">>} \cup {<<"/">> \o n : n \in SeqsUpTo({"a", "b"}, MaxPathLen) \ {<<>>}}

LineOf(h, p) == <<h>> \o p \o <<NL>>

\* The files the kernel prints: one newline-terminated line per hierarchy.
RECURSIVE FilesUsing(_, _)
FilesUsing(H, n) ==
  IF n = 0 \/ H = {} THEN {<<>>}
  ELSE {<<>>} \cup
       UNION {{LineOf(h, p) \o f : p \in CgroupPaths, f \in FilesUsing(H \ {h}, n - 1)} : h \in H}

CgroupFiles ==
  {[readable |-> FALSE, data |-> <<>>]}
    \cup {[readable |-> TRUE, data |-> f] : f \in FilesUsing(HierPrefixes, MaxLines)}

CgRet(a, b, e) == [v1 |-> a, v2 |-> b, err |-> e]

\* The loop of lines 104-119: reader.ReadString('\n') returns the text up to
\* and including the next newline; at the end of the file it returns an error
\* and the loop ends, whatever text was left.
RECURSIVE ScanLines(_, _, _)
ScanLines(data, v1, v2) ==
  LET ends == {i \in 1 .. Len(data) : data[i] = NL}
  IN  IF ends = {} THEN <<v1, v2>>
      ELSE LET n == Min(ends)
               line == SubSeq(data, 1, n)
               rest == SubSeq(data, n + 1, Len(data))
           IN  IF HasPrefix(line, <<V1Prefix>>)
                 THEN ScanLines(rest, TrimSuffix(TrimPrefix(line, <<V1Prefix>>), <<NL>>), v2)
               ELSE IF HasPrefix(line, <<V2Prefix>>)
                 THEN ScanLines(rest, v1, TrimSuffix(TrimPrefix(line, <<V2Prefix>>), <<NL>>))
               ELSE ScanLines(rest, v1, v2)

Root == <<"/">>

\* Faulty variant: line 116 missing, the v2 path keeps its newline.
GetCgroupPathsKeepsNL(file) ==
  IF ~file.readable THEN CgRet(<<>>, <<>>, "cannot parse cgroup")
  ELSE LET found == ScanLines(file.data, <<>>, <<>>)
           untrimmed == IF found[2] = <<>> THEN <<>> ELSE found[2] \o <<NL>>
           v1 == IF found[1] = Root THEN <<>> ELSE found[1]
           v2 == IF untrimmed = Root THEN <<>> ELSE untrimmed
       IN  IF v2 = <<>> /\ v1 = <<>> THEN CgRet(<<>>, <<>>, "cannot find cgroup path")
           ELSE CgRet(v1, v2, "nil")

\* Faulty variant: lines 128-130 missing, a v2 root stays "/".
GetCgroupPathsKeepsRoot(file) ==
  IF ~file.readable THEN CgRet(<<>>, <<>>, "cannot parse cgroup")
  ELSE LET found == ScanLines(file.data, <<>>, <<>>)
           v1 == IF found[1] = Root THEN <<>> ELSE found[1]
           v2 == found[2]
       IN  IF v2 = <<>> /\ v1 = <<>> THEN CgRet(<<>>, <<>>, "cannot find cgroup path")
           ELSE CgRet(v1, v2, "nil")

GetCgroupPaths(file) ==
  IF ~file.readable THEN CgRet(<<>>, <<>>, "cannot parse cgroup")
  ELSE LET found == ScanLines(file.data, <<>>, <<>>)
           v1 == IF found[1] = Root THEN <<>> ELSE found[1]
           v2 == IF found[2] = Root THEN <<>> ELSE found[2]
       IN  IF v2 = <<>> /\ v1 = <<>> THEN CgRet(<<>>, <<>>, "cannot find cgroup path")
           ELSE CgRet(v1, v2, "nil")

NoCgPaths == CgRet(<<>>, <<>>, "none")

GetCgroupPathsCall ==
  /\ cgPaths = NoCgPaths
  /\ cgPaths' = GetCgroupPaths(cgroupFile)
  /\ UNCHANGED <<pidVars, parseVars, cgroupFile, mountVars, cgidVars, registryVars>>

(***************************************************************************)
(* CgroupPathV2AddMountpoint                                               *)
(***************************************************************************)
UnifiedRoot == "/sys/fs/cgroup/unified"
DefaultRoot == "/sys/fs/cgroup"

\* filepath.Clean on chunks: a run of separators is one separator and a
\* trailing separator is dropped.
RECURSIVE Clean(_)
Clean(s) ==
  IF Len(s) <= 1 THEN s
  ELSE IF s[Len(s)] = "/" THEN Clean(SubSeq(s, 1, Len(s) - 1))
  ELSE IF s[Len(s) - 1] = "/" /\ Len(s) > 2 /\ s[Len(s) - 2] = "/"
    THEN Clean(SubSeq(s, 1, Len(s) - 2) \o <<s[Len(s)]>>)
  ELSE Clean(SubSeq(s, 1, Len(s) - 1)) \o <<s[Len(s)]>>

\* filepath.Join(root, path): empty elements are ignored, the rest joined
\* with a separator and cleaned.
Join(root, path) == IF path = <<>> THEN <<root>> ELSE Clean(<<root, "/">> \o path)

\* os.Stat: nil, or an error; os.IsNotExist is true of ENOENT alone.  Stat
\* answers ENOTDIR when a component before the last is not a directory, as
\* is cgroup.procs, a file of every cgroup.
RegularFile == "cgroup.procs"

ThroughFile(path) ==
  \E i \in 1 .. Len(path) - 2 :
    path[i] = RegularFile /\ path[i + 1] = "/" /\ path[i + 2] # "/"

StatResults(path) == {"nil", "ENOENT"} \cup (IF ThroughFile(path) THEN {"ENOTDIR"} ELSE {})

IsNotExist(e) == e = "ENOENT"

QRet(p, e) == [path |-> p, err |-> e]

CgroupPathV2AddMountpoint(path, su, sd) ==
  IF IsNotExist(su)
    THEN IF IsNotExist(sd) THEN QRet(<<>>, "cannot access cgroup")
         ELSE QRet(Join(DefaultRoot, path), "nil")
    ELSE QRet(Join(UnifiedRoot, path), "nil")

RawPaths == SeqsUpTo({"/", "a", RegularFile}, MaxRawLen)

NotQualified == QRet(<<>>, "none")

AddMountpointCall ==
  /\ qualified = NotQualified
  /\ qualified' = CgroupPathV2AddMountpoint(rawPath, statUnified, statDefault)
  /\ UNCHANGED <<pidVars, parseVars, cgroupVars, rawPath, statUnified, statDefault, cgidVars, registryVars>>

(***************************************************************************)
(* GetCgroupID and the C function get_cgroupid                             *)
(***************************************************************************)
\* What name_to_handle_at can do with an 8-byte handle buffer: fail, or
\* succeed and report the size and the bytes of the handle it wrote.
Syscalls == [err : {0, -1}, handle_bytes : {4, 8}, cgid : 0 .. MaxCgid]

\* get_cgroupid: [ret, live], live being the buffers it allocated and did
\* not free before it returned.
get_cgroupid(mallocOk, sys) ==
  IF ~mallocOk THEN [ret |-> 0, live |-> 0]
  ELSE IF sys.err # 0 THEN [ret |-> 0, live |-> 1]
  ELSE IF sys.handle_bytes # 8 THEN [ret |-> 0, live |-> 1]
  ELSE [ret |-> sys.cgid, live |-> 0]

QualifiedPaths == {Join(r, p) : r \in {UnifiedRoot, DefaultRoot}, p \in {<<"a">>, <<"b">>}}

GetCgroupID(pathWithMountpoint) ==
  /\ cgidCalls < MaxCalls
  /\ cgidCalls' = cgidCalls + 1
  /\ cgidArg' = pathWithMountpoint
  /\ \E mallocOk \in BOOLEAN, sys \in Syscalls :
       LET r == get_cgroupid(mallocOk, sys)
       IN  /\ heapHandles' = heapHandles + r.live
           /\ heapCStrings' = heapCStrings + 1 - 1
           /\ cgidRet' = IF r.ret = 0 THEN [id |-> 0, err |-> "GetCgroupID failed"]
                         ELSE [id |-> r.ret, err |-> "nil"]
  /\ UNCHANGED <<pidVars, parseVars, cgroupVars, mountVars, registryVars>>

(***************************************************************************)
(* The Container Registry: OnStart and OnStop over the primary table and   *)
(* its three lookup indexes.                                               *)
(***************************************************************************)
HookPayloads ==
  {<<LBrace, "id:a", Comma, "pid:1", RBrace>>,
   <<LBrace, "id:b", Comma, "pid:2", RBrace>>,
   <<LBrace, "id:a", RBrace>>,
   <<LBrace, "id:b", Comma, "pid:1", Comma, AnnKey, Junk>>,
   <<Junk>>}

\* What the resolvers answer for the container of a start hook: the pid the
\* Container Identity Resolver returns (-1 with an error), the cgroup id (0:
\* a cgroup resolution failed) and the mount namespace id (0: it failed).
Resolutions ==
  {r \in [pid : PidValues, pidErr : {"nil", "failed"},
          cgroupID : 0 .. MaxCgid, mountNsID : 0 .. MaxNsId] :
     r.pidErr = "failed" => r.pid = -1}

\* ParseOCIState on each hook payload.
HookState == [p \in HookPayloads |-> ParseOCIState(p)]

Entry(i, p, c, n) == [id |-> i, pid |-> p, cgroupID |-> c, mountNsID |-> n]

\* An index without the pairs of container i and without the pairs under k.
Without(index, i, k) == {x \in index : x[2] # i /\ x[1] # k}

Purged(index, i) == {x \in index : x[2] # i}

\* Faulty variant: the entry is added without removing the one it replaces.
OnStartKeepsOld(payload) ==
  LET st == HookState[payload]
  IN  /\ UNCHANGED <<pidVars, parseVars, cgroupVars, mountVars, cgidVars>>
      /\ \E r \in Resolutions :
           LET pid == IF st.pid > 0 THEN st.pid ELSE r.pid
               ok == /\ st.err = "nil"
                     /\ st.pid > 0 \/ r.pidErr = "nil"
                     /\ pid > 0
                     /\ r.cgroupID # 0
                     /\ r.mountNsID # 0
           IN  /\ lastHook' = [op |-> "start", changed |-> ok]
               /\ IF ok
                    THEN /\ table' = table \cup {Entry(st.id, pid, r.cgroupID, r.mountNsID)}
                         /\ byPid' = byPid \cup {<<pid, st.id>>}
                         /\ byCgroupID' = byCgroupID \cup {<<r.cgroupID, st.id>>}
                         /\ byMountNsID' = byMountNsID \cup {<<r.mountNsID, st.id>>}
                    ELSE UNCHANGED <<table, byPid, byCgroupID, byMountNsID>>

\* OnStart: parse the payload; take its pid when positive, else the resolved
\* one; a process with no /proc entry (pid <= 0) has no cgroup; any failure
\* leaves the registry as it was; else the entry replaces the one of its id.
OnStart(payload) ==
  LET st == HookState[payload]
  IN  /\ UNCHANGED <<pidVars, parseVars, cgroupVars, mountVars, cgidVars>>
      /\ \E r \in Resolutions :
           LET pid == IF st.pid > 0 THEN st.pid ELSE r.pid
               ok == /\ st.err = "nil"
                     /\ st.pid > 0 \/ r.pidErr = "nil"
                     /\ pid > 0
                     /\ r.cgroupID # 0
                     /\ r.mountNsID # 0
           IN  /\ lastHook' = [op |-> "start", changed |-> ok]
               /\ IF ok
                    THEN /\ table' = {e \in table : e.id # st.id}
                                       \cup {Entry(st.id, pid, r.cgroupID, r.mountNsID)}
                         /\ byPid' = Without(byPid, st.id, pid) \cup {<<pid, st.id>>}
                         /\ byCgroupID' =
                              Without(byCgroupID, st.id, r.cgroupID) \cup {<<r.cgroupID, st.id>>}
                         /\ byMountNsID' =
                              Without(byMountNsID, st.id, r.mountNsID) \cup {<<r.mountNsID, st.id>>}
                    ELSE UNCHANGED <<table, byPid, byCgroupID, byMountNsID>>

\* OnStop: parse the payload for the id; remove the entry of that id, if any,
\* and every index pair of it.
OnStop(payload) ==
  LET st == HookState[payload]
  IN  /\ lastHook' = [op |-> "stop",
                      changed |-> st.err = "nil" /\ \E e \in table : e.id = st.id]
      /\ IF st.err = "nil"
           THEN /\ table' = {e \in table : e.id # st.id}
                /\ byPid' = Purged(byPid, st.id)
                /\ byCgroupID' = Purged(byCgroupID, st.id)
                /\ byMountNsID' = Purged(byMountNsID, st.id)
           ELSE UNCHANGED <<table, byPid, byCgroupID, byMountNsID>>
      /\ UNCHANGED <<pidVars, parseVars, cgroupVars, mountVars, cgidVars>>

vars == <<pidVars, parseVars, cgroupVars, mountVars, cgidVars, registryVars>>

PidIdle ==
  /\ pc = "idle"
  /\ containerID = <<>>
  /\ io = NoIO
  /\ ret = Ret(0, "none")

ParseIdle ==
  /\ stateBuf = <<>>
  /\ parsed = NotParsed

CgroupIdle ==
  /\ cgroupFile = [readable |-> FALSE, data |-> <<>>]
  /\ cgPaths = NoCgPaths

MountIdle ==
  /\ rawPath = <<>>
  /\ statUnified = "nil"
  /\ statDefault = "nil"
  /\ qualified = NotQualified

CgidIdle ==
  /\ heapHandles = 0
  /\ heapCStrings = 0
  /\ cgidCalls = 0
  /\ cgidArg = <<>>
  /\ cgidRet = [id |-> 0, err |-> "none"]

RegistryIdle ==
  /\ table = {}
  /\ byPid = {}
  /\ byCgroupID = {}
  /\ byMountNsID = {}
  /\ lastHook = [op |-> "none", changed |-> FALSE]

\* Calls of PidFromContainerId, one after the other.
Init == PidIdle /\ ParseIdle /\ CgroupIdle /\ MountIdle /\ CgidIdle /\ RegistryIdle

Next ==
  \/ \E id \in ContainerIDs : PidFromContainerId(id)
  \/ DialerReturns
  \/ ContainerStatusReturns

Spec == Init /\ [][Next]_vars

\* The dialer's timeout is a timer of the process itself: it always fires.
\* The runtime's answer is the environment's step and gets no fairness.
LiveSpec == Spec /\ WF_vars(DialerReturns)

\* ParseOCIState on every payload.
ParseInit ==
  /\ PidIdle /\ CgroupIdle /\ MountIdle /\ CgidIdle /\ RegistryIdle
  /\ stateBuf \in Payloads
  /\ parsed = NotParsed

ParseNext == ParseCall

ParseSpec == ParseInit /\ [][ParseNext]_vars

\* GetCgroupPaths on every /proc/<pid>/cgroup.
CgroupInit ==
  /\ PidIdle /\ ParseIdle /\ MountIdle /\ CgidIdle /\ RegistryIdle
  /\ cgroupFile \in CgroupFiles
  /\ cgPaths = NoCgPaths

CgroupNext == GetCgroupPathsCall

CgroupSpec == CgroupInit /\ [][CgroupNext]_vars

\* CgroupPathV2AddMountpoint on every path and every state of the two mounts.
MountInit ==
  /\ PidIdle /\ ParseIdle /\ CgroupIdle /\ CgidIdle /\ RegistryIdle
  /\ rawPath \in RawPaths
  /\ statUnified \in StatResults(rawPath)
  /\ statDefault \in StatResults(rawPath)
  /\ qualified = NotQualified

MountNext == AddMountpointCall

MountSpec == MountInit /\ [][MountNext]_vars

\* Calls of GetCgroupID, one after the other.
CgidNext == \E path \in QualifiedPaths : GetCgroupID(path)

CgidSpec == Init /\ [][CgidNext]_vars

\* Start and stop hooks, one after the other.
RegistryNext ==
  \/ \E payload \in HookPayloads : OnStart(payload)
  \/ \E payload \in HookPayloads : OnStop(payload)

RegistrySpec == Init /\ [][RegistryNext]_vars

(***************************************************************************)
(* ParseOCIState: claims C3 and C7                                         *)
(***************************************************************************)
ParseReturned == parsed # NotParsed

\* The text before the ,"annotations": that starts at k, closed with }.
PrefixClosed(k) == SubSeq(stateBuf, 1, k - 1) \o <<RBrace>>

SamePair(u) == parsed.err = "nil" /\ parsed.id = u.id /\ parsed.pid = u.pid

\* C3 as stated, for prefixes that carry the required id: whenever the
\* payload is not valid JSON and some ,"annotations": of it is preceded by a
\* well-formed prefix, ParseOCIState returns the (id, pid) that strict
\* decoding of that prefix closed with } yields, however many times
\* ,"annotations": occurs.
C3_RecoversAnyPrefix ==
  ParseReturned /\ ~Unmarshal(stateBuf).ok =>
    \A k \in MarkerAt(stateBuf) :
      LET u == Unmarshal(PrefixClosed(k))
      IN  u.ok /\ u.id # "" => SamePair(u)

\* C3 amended: whenever the payload is not valid JSON and the text before
\* its last ,"annotations": is a well-formed prefix, ParseOCIState returns
\* the (id, pid) that strict decoding of that prefix closed with } yields.
C3_RecoversLastPrefix ==
  ParseReturned /\ ~Unmarshal(stateBuf).ok /\ MarkerAt(stateBuf) # {} =>
    LET k == Max(MarkerAt(stateBuf))
    IN  Unmarshal(PrefixClosed(k)).ok => SamePair(Unmarshal(PrefixClosed(k)))

\* A payload with two ,"annotations": was recovered through the last one.
C3_Witness ==
  /\ ParseReturned
  /\ ~Unmarshal(stateBuf).ok
  /\ Cardinality(MarkerAt(stateBuf)) >= 2
  /\ Unmarshal(PrefixClosed(Max(MarkerAt(stateBuf)))).ok
  /\ parsed.err = "nil"
  /\ parsed.id = "b"
  /\ parsed.matches = 1

HasAnnotations(buf) == \E i \in 1 .. Len(buf) : buf[i] = AnnKey

\* C7: a payload that is not valid JSON and carries no "annotations": makes
\* ParseOCIState return an error after exactly one run of the pattern and
\* at most one further decode.
C7_UnparseableFailsOnce ==
  ParseReturned /\ ~Unmarshal(stateBuf).ok /\ ~HasAnnotations(stateBuf) =>
    /\ parsed.err # "nil"
    /\ parsed.matches = 1
    /\ parsed.decodes - 1 <= 1

\* ParseOCIState has returned from such a payload.
C7_Witness ==
  /\ ParseReturned
  /\ ~Unmarshal(stateBuf).ok
  /\ ~HasAnnotations(stateBuf)
  /\ Len(stateBuf) > 2
  /\ parsed.err # "nil"

(***************************************************************************)
(* PidFromContainerId: claims C1, C2 and C4                                *)
(***************************************************************************)
\* C1: a call that returns a nil error returns a pid greater than zero, in
\* the docker, the cri-o and the containerd branch alike.
C1_NoNonPositivePid == pc = "done" /\ ret.err = "nil" => ret.pid > 0

\* C2: a cri-o or containerd call that has dialed, or waits for the answer
\* to its ContainerStatus RPC, eventually returns.
C2_CallReturns == [](pc \in {"dialing", "rpc"} => <>(pc = "done"))

KnownPrefixes == {"docker://", "cri-o://", "containerd://"}

UnknownPrefix == Len(containerID) = 0 \/ containerID[1] \notin KnownPrefixes

\* C4: a call on an id that starts with none of the three prefixes returns
\* the unknown-runtime error and has run no process, dialed no socket and
\* issued no RPC.
C4_UnknownRuntimeTouchesNothing ==
  pc # "idle" /\ UnknownPrefix =>
    /\ pc = "done"
    /\ ret = Ret(-1, "unknown container runtime")
    /\ io = NoIO

\* The call on ftp://abc has returned, and so has one whose id carries a
\* known prefix after its first chunk.
C4_Witness ==
  /\ pc = "done"
  /\ containerID \in {<<"ftp://", "abc">>, <<"abc", "docker://">>}
  /\ ret.err = "unknown container runtime"

(***************************************************************************)
(* GetCgroupPaths: claims C5 and C6                                        *)
(***************************************************************************)
CgReturned == cgPaths # NoCgPaths

\* A line of the file starts at i with the hierarchy prefix h.
LineAt(i, h) ==
  /\ cgroupFile.data[i] = h
  /\ i = 1 \/ cgroupFile.data[i - 1] = NL

\* That line carries the root path and nothing else.
RootAt(i) ==
  /\ i + 2 <= Len(cgroupFile.data)
  /\ cgroupFile.data[i + 1] = "/"
  /\ cgroupFile.data[i + 2] = NL

HasLine(h) == \E i \in 1 .. Len(cgroupFile.data) : LineAt(i, h)
HasRootLine(h) == \E i \in 1 .. Len(cgroupFile.data) : LineAt(i, h) /\ RootAt(i)

CleanV2 ==
  /\ cgPaths.err = "nil"
  /\ cgPaths.v2 # <<>>
  /\ cgPaths.v2[Len(cgPaths.v2)] # NL
  /\ cgPaths.v2[1] # V2Prefix

\* C5 as stated: a readable file with a line starting with 0:: yields a
\* non-empty v2 path without the newline and without the leading 0::.
C5_UnifiedLineGivesV2 ==
  CgReturned /\ cgroupFile.readable /\ HasLine(V2Prefix) => CleanV2

\* C5 amended: a readable file with a line starting with 0:: whose path is
\* not the root "/" yields a non-empty v2 path without the newline and
\* without the leading 0::.
C5_NonRootUnifiedLineGivesV2 ==
  CgReturned /\ cgroupFile.readable /\ HasLine(V2Prefix) /\ ~HasRootLine(V2Prefix) => CleanV2

\* A file whose 0:: line is not its first and names /a was read.
C5_Witness ==
  /\ CgReturned
  /\ cgroupFile.readable
  /\ HasLine(V2Prefix)
  /\ cgroupFile.data[1] # V2Prefix
  /\ cgPaths.v2 = <<"/", "a">>

\* C6: no returned path is "/"; a root line is returned as the empty path;
\* a call that succeeds returns at least one non-empty path, and a call
\* that fails returns two empty ones.
C6_RootIsEmpty ==
  CgReturned =>
    /\ cgPaths.v1 # Root
    /\ cgPaths.v2 # Root
    /\ cgroupFile.readable /\ HasRootLine(V1Prefix) => cgPaths.v1 = <<>>
    /\ cgroupFile.readable /\ HasRootLine(V2Prefix) => cgPaths.v2 = <<>>
    /\ cgPaths.err = "nil" => cgPaths.v1 # <<>> \/ cgPaths.v2 # <<>>
    /\ cgPaths.err # "nil" => cgPaths.v1 = <<>> /\ cgPaths.v2 = <<>>

\* A process in the root of the unified hierarchy and in a v1 systemd
\* cgroup: the call succeeded with an empty v2 path.
C6_Witness ==
  /\ CgReturned
  /\ HasRootLine(V2Prefix)
  /\ cgPaths.err = "nil"
  /\ cgPaths.v1 # <<>>
  /\ cgPaths.v2 = <<>>

(***************************************************************************)
(* CgroupPathV2AddMountpoint: claim C8                                     *)
(***************************************************************************)
\* The path exists when os.Stat succeeds; ENOENT and ENOTDIR both say that
\* it does not.
Exists(e) == e = "nil"

\* C8: the unified path when it exists; the default path only when the
\* unified one does not exist and the default one does; an error and the
\* empty path when neither exists.
C8_PrefersUnifiedElseDefaultElseFails ==
  qualified # NotQualified =>
    /\ Exists(statUnified) => qualified = QRet(Join(UnifiedRoot, rawPath), "nil")
    /\ qualified = QRet(Join(DefaultRoot, rawPath), "nil") =>
         ~Exists(statUnified) /\ Exists(statDefault)
    /\ ~Exists(statUnified) /\ ~Exists(statDefault) =>
         qualified.err # "nil" /\ qualified.path = <<>>

(***************************************************************************)
(* get_cgroupid: claim C10                                                 *)
(***************************************************************************)
\* C10: between calls of GetCgroupID no handle buffer is left allocated.
C10_NoHandleBufferLeft == heapHandles = 0

(***************************************************************************)
(* The Container Registry: claim C9                                        *)
(***************************************************************************)
Keys(e) == [pid |-> e.pid, cgroupID |-> e.cgroupID, mountNsID |-> e.mountNsID]

\* Every pair of the index names a live entry that carries the pair's key.
Refers(index, field) ==
  \A x \in index : \E e \in table : e.id = x[2] /\ Keys(e)[field] = x[1]

\* C9: every index pair refers to an entry of the primary table, and no two
\* entries of the table share a container id.
C9_IndexesConsistent ==
  /\ Refers(byPid, "pid")
  /\ Refers(byCgroupID, "cgroupID")
  /\ Refers(byMountNsID, "mountNsID")
  /\ \A e1, e2 \in table : e1.id = e2.id => e1 = e2

\* A stop hook removed one container while another one stays registered
\* and indexed.
C9_Witness ==
  /\ lastHook = [op |-> "stop", changed |-> TRUE]
  /\ Cardinality(table) = 1
  /\ byPid # {}
  /\ byCgroupID # {}
  /\ byMountNsID # {}

====
